---- MODULE Spec2Model ----
(***************************************************************************)
(* Model of app.py (PDF page splitter): parse_page_spec, the steps of      *)
(* extract_pages_from_pdf, and the module-level Streamlit script.           *)
(*                                                                         *)
(* A Python str is a sequence of one-character strings.  A PDF (the bytes  *)
(* of a file) is a record [valid, enc, pages, bad, meta]: whether the      *)
(* bytes parse as a PDF, how it is encrypted ("none", "empty": the empty   *)
(* user password opens it, "locked": a real password is needed), the page  *)
(* objects in order, the set of page numbers whose objects cannot be       *)
(* cloned by the library, and the document information.                    *)
(***************************************************************************)
EXTENDS Integers, Sequences, FiniteSets, TLC

VARIABLES
    spec,            \* the text of the page spec (argument of parse_page_spec)
    parsed,          \* outcome of parse_page_spec(spec)
    pdf_bytes,       \* extract_pages_from_pdf: parameter pdf_bytes
    pages_1based,    \* extract_pages_from_pdf: parameter pages_1based
    xpc,             \* extract_pages_from_pdf: position in the function body
    reader,          \* extract_pages_from_pdf: local reader (PdfReader)
    total_pages,     \* extract_pages_from_pdf: local total_pages
    idx,             \* extract_pages_from_pdf: position of the running for loop
    writer,          \* extract_pages_from_pdf: local writer (PdfWriter)
    result,          \* extract_pages_from_pdf: returned bytes
    err,             \* extract_pages_from_pdf: exception that left the function
    upc,             \* script: position in the module-level UI flow
    uploaded,        \* script: uploaded file (None or the file's bytes)
    m_total_pages,   \* script: module-level total_pages
    mode,            \* script: selection mode
    start,           \* script: start page number input
    end,             \* script: end page number input
    selected_pages,  \* script: selected_pages
    clicked,         \* script: value of the build button
    msgs,            \* script: messages rendered by st.info/error/warning/success
    download         \* script: data handed to st.download_button

vars == <<spec, parsed, pdf_bytes, pages_1based, xpc, reader, total_pages, idx,
          writer, result, err, upc, uploaded, m_total_pages, mode, start, end,
          selected_pages, clicked, msgs, download>>

parseVars == <<spec, parsed>>
extractVars == <<pdf_bytes, pages_1based, xpc, reader, total_pages, idx, writer,
                 result, err>>
uiVars == <<upc, uploaded, m_total_pages, mode, start, end, selected_pages,
            clicked, msgs, download>>

(***************************************************************************)
(* Bounds                                                                  *)
(***************************************************************************)
MaxSpecLen == 5      \* longest spec text given to parse_page_spec directly
MaxUISpecLen == 3    \* longest spec text typed into the form
MaxPages == 3        \* most pages of an uploaded document
MaxList == 3         \* longest page list given to extract_pages_from_pdf directly
MaxInput == 11       \* largest value of the start/end number inputs

\* Python's None, where the other values are records.
None == [none |-> TRUE]

\* No exception, no mode chosen.
NoErr == "none"

NoMode == "none"

(***************************************************************************)
(* Python str helpers                                                      *)
(***************************************************************************)
\* Characters a spec text is drawn from.
SpecChars == {"1", "3", ",", "-", "+", " ", "x"}

Texts(n) == UNION {[1..k -> SpecChars] : k \in 0..n}

Digits == <<"0", "1", "2", "3", "4", "5", "6", "7", "8", "9">>

IsDigit(c) == \E k \in 1..Len(Digits) : Digits[k] = c

DigitVal(c) == (CHOOSE k \in 1..Len(Digits) : Digits[k] = c) - 1

\* str.strip() and int() drop these characters at both ends.
IsSpace(c) == c \in {" ", "\t", "\n", "\r"}

Contains(s, c) == \E k \in 1..Len(s) : s[k] = c

FirstIndex(s, c) == CHOOSE k \in 1..Len(s) : s[k] = c /\ \A j \in 1..(k-1) : s[j] # c

\* str.split(sep) for a one-character separator: always at least one piece.
RECURSIVE Split(_, _)
Split(s, sep) ==
    IF ~Contains(s, sep) THEN <<s>>
    ELSE LET k == FirstIndex(s, sep)
         IN  <<SubSeq(s, 1, k - 1)>> \o Split(SubSeq(s, k + 1, Len(s)), sep)

\* str.split(sep, 1) where sep occurs: the text before and after the first sep.
Split1(s, sep) ==
    LET k == FirstIndex(s, sep)
    IN  <<SubSeq(s, 1, k - 1), SubSeq(s, k + 1, Len(s))>>

RECURSIVE LStrip(_)
LStrip(s) == IF s # <<>> /\ IsSpace(Head(s)) THEN LStrip(Tail(s)) ELSE s

RECURSIVE RStrip(_)
RStrip(s) ==
    IF s # <<>> /\ IsSpace(s[Len(s)]) THEN RStrip(SubSeq(s, 1, Len(s) - 1)) ELSE s

Strip(s) == RStrip(LStrip(s))

\* Value of a run of digits and underscores (underscores carry no value).
RECURSIVE DigitsVal(_)
DigitsVal(s) ==
    IF s = <<>> THEN 0
    ELSE LET c == s[Len(s)]
             r == SubSeq(s, 1, Len(s) - 1)
         IN  IF c = "_" THEN DigitsVal(r) ELSE 10 * DigitsVal(r) + DigitVal(c)

\* int() accepts digits with single underscores between them.
DigitsOk(s) ==
    /\ s # <<>>
    /\ \A k \in 1..Len(s) : IsDigit(s[k]) \/ s[k] = "_"
    /\ s[1] # "_" /\ s[Len(s)] # "_"
    /\ \A k \in 1..(Len(s) - 1) : ~(s[k] = "_" /\ s[k + 1] = "_")

\* Variant of PyInt that reads an empty text as 0 (int(s or 0)).
PyInt_lenient(s) ==
    LET t == Strip(s)
        signed == t # <<>> /\ t[1] \in {"+", "-"}
        body == IF signed THEN Tail(t) ELSE t
    IN  IF t = <<>> THEN [ok |-> TRUE, val |-> 0]
        ELSE IF DigitsOk(body)
        THEN [ok |-> TRUE,
              val |-> IF signed /\ t[1] = "-" THEN 0 - DigitsVal(body)
                      ELSE DigitsVal(body)]
        ELSE [ok |-> FALSE, val |-> 0]

\* int(s) for a str: surrounding whitespace dropped, an optional sign, then
\* digits; anything else raises ValueError.
PyInt(s) ==
    LET t == Strip(s)
        signed == t # <<>> /\ t[1] \in {"+", "-"}
        body == IF signed THEN Tail(t) ELSE t
    IN  IF DigitsOk(body)
        THEN [ok |-> TRUE,
              val |-> IF signed /\ t[1] = "-" THEN 0 - DigitsVal(body)
                      ELSE DigitsVal(body)]
        ELSE [ok |-> FALSE, val |-> 0]

\* list(range(from, stop, step)), step # 0.
PyRange(from, stop, step) ==
    LET n == IF step > 0 THEN (stop - from + step - 1) \div step
             ELSE (from - stop - step - 1) \div (0 - step)
        len == IF n > 0 THEN n ELSE 0
    IN  [k \in 1..len |-> from + (k - 1) * step]

(***************************************************************************)
(* parse_page_spec                                                         *)
(***************************************************************************)
Raised(e) == [status |-> e, pages |-> <<>>]

Returned(l) == [status |-> "ok", pages |-> l]

\* Variant of ExpandRange that stops one short: range(start, end, step).
ExpandRange_exclusive(a, b) ==
    LET step == IF a <= b THEN 1 ELSE 0 - 1
    IN  PyRange(a, b, step)

\* The body of the range branch: the pages 'start_s-end_s' stands for.
ExpandRange(a, b) ==
    LET step == IF a <= b THEN 1 ELSE 0 - 1
    IN  PyRange(a, b + step, step)

\* Variant of ParseParts that skips a piece it cannot read instead of raising.
RECURSIVE ParseParts_skip(_, _)
ParseParts_skip(parts, pages) ==
    IF parts = <<>> THEN Returned(pages)
    ELSE LET part == Strip(Head(parts))
             rest == Tail(parts)
         IN  IF part = <<>> THEN ParseParts_skip(rest, pages)
             ELSE IF Contains(part, "-")
             THEN LET ss == Split1(part, "-")
                      s == PyInt(ss[1])
                      e == PyInt(ss[2])
                  IN  IF ~s.ok \/ ~e.ok THEN ParseParts_skip(rest, pages)
                      ELSE ParseParts_skip(rest, pages \o ExpandRange(s.val, e.val))
             ELSE LET n == PyInt(part)
                  IN  IF ~n.ok THEN ParseParts_skip(rest, pages)
                      ELSE ParseParts_skip(rest, Append(pages, n.val))

\* One pass of the for loop over the pieces, pages being the list so far.
RECURSIVE ParseParts(_, _)
ParseParts(parts, pages) ==
    IF parts = <<>> THEN Returned(pages)
    ELSE LET part == Strip(Head(parts))
             rest == Tail(parts)
         IN  IF part = <<>> THEN ParseParts(rest, pages)
             ELSE IF Contains(part, "-")
             THEN LET ss == Split1(part, "-")
                      s == PyInt(ss[1])
                      e == PyInt(ss[2])
                  IN  IF ~s.ok \/ ~e.ok THEN Raised("ValueError")
                      ELSE ParseParts(rest, pages \o ExpandRange(s.val, e.val))
             ELSE LET n == PyInt(part)
                  IN  IF ~n.ok THEN Raised("ValueError")
                      ELSE ParseParts(rest, Append(pages, n.val))

parse_page_spec(s) ==
    IF s = <<>> THEN Returned(<<>>)
    ELSE ParseParts(Split(s, ","), <<>>)

(***************************************************************************)
(* PDF documents and the pypdf objects the code uses                       *)
(***************************************************************************)
\* The page object at position k of an uploaded document.
PageObj(k) == [obj |-> k]

\* Bytes that are no PDF.
NotPdf == [valid |-> FALSE, enc |-> "none", pages |-> <<>>, bad |-> {}, meta |-> None]

\* The files a user can upload: at most one page object that cannot be cloned.
Docs ==
    {NotPdf} \cup
    UNION {{[valid |-> TRUE, enc |-> e, pages |-> [k \in 1..n |-> PageObj(k)],
             bad |-> b, meta |-> None] :
               e \in {"none", "empty", "locked"},
               b \in {{}} \cup {{k} : k \in 1..n}} : n \in 0..MaxPages}

PageLists == UNION {[1..k -> (0 - 1)..(MaxPages + 1)] : k \in 0..MaxList}

\* PdfReader(io.BytesIO(b)) on bytes that parse: the library tries the empty
\* password itself while it opens an encrypted file.
PdfReader(b) ==
    [is_encrypted |-> b.enc # "none", unlocked |-> b.enc # "locked",
     pages |-> b.pages, bad |-> b.bad]

\* len(reader.pages) is refused on an encrypted file that was not unlocked.
PagesReadable(r) == ~r.is_encrypted \/ r.unlocked

\* seq[i] of Python, i 0-based: a negative i counts from the end.
InIndex(seq, i) == 0 - Len(seq) <= i /\ i < Len(seq)

PyIndex(seq, i) == IF i >= 0 THEN seq[i + 1] ELSE seq[Len(seq) + i + 1]

PdfWriter == [pages |-> <<>>, meta |-> None]

Metadata == [Title |-> "Extracted Pages", Producer |-> "pypdf"]

\* writer.write(out_buf); out_buf.read(): the bytes of the written document.
Serialize(w) ==
    [valid |-> TRUE, enc |-> "none", pages |-> w.pages, bad |-> {}, meta |-> w.meta]

(***************************************************************************)
(* extract_pages_from_pdf, one action per statement                        *)
(***************************************************************************)
Raise(e) == xpc' = "raised" /\ err' = e

\* Variant of OutOfRange with the upper test off by one.
OutOfRange_strict(p, n) == p < 1 \/ p >= n

OutOfRange(p, n) == p < 1 \/ p > n

\* Variant of SourcePage that looks one page too early: reader.pages[p - 2].
SourcePage_early(r, p) == PyIndex(r.pages, p - 2)

\* The page writer.add_page is given for page number p.
SourcePage(r, p) == PyIndex(r.pages, p - 1)

\* reader = PdfReader(io.BytesIO(pdf_bytes))
XOpen ==
    /\ xpc = "open"
    /\ IF ~pdf_bytes.valid
       THEN Raise("PdfReadError") /\ UNCHANGED reader
       ELSE reader' = PdfReader(pdf_bytes) /\ xpc' = "decrypt" /\ UNCHANGED err
    /\ UNCHANGED <<pdf_bytes, pages_1based, total_pages, idx, writer, result>>
    /\ UNCHANGED <<parseVars, uiVars>>

\* if reader.is_encrypted: try: reader.decrypt("") except: raise RuntimeError.
\* decrypt either raises or returns whether the password fitted; the value it
\* returns is dropped.
XDecrypt ==
    /\ xpc = "decrypt"
    /\ IF ~reader.is_encrypted
       THEN xpc' = "count" /\ UNCHANGED <<reader, err>>
       ELSE IF pdf_bytes.enc = "empty"
       THEN reader' = [reader EXCEPT !.unlocked = TRUE]
            /\ xpc' = "count" /\ UNCHANGED err
       ELSE \/ Raise("RuntimeError") /\ UNCHANGED reader
            \/ xpc' = "count" /\ UNCHANGED <<reader, err>>
    /\ UNCHANGED <<pdf_bytes, pages_1based, total_pages, idx, writer, result>>
    /\ UNCHANGED <<parseVars, uiVars>>

\* total_pages = len(reader.pages)
XCount ==
    /\ xpc = "count"
    /\ IF PagesReadable(reader)
       THEN total_pages' = Len(reader.pages) /\ idx' = 1 /\ xpc' = "validate"
            /\ UNCHANGED err
       ELSE Raise("FileNotDecryptedError") /\ UNCHANGED <<total_pages, idx>>
    /\ UNCHANGED <<pdf_bytes, pages_1based, reader, writer, result>>
    /\ UNCHANGED <<parseVars, uiVars>>

\* Variant of XValidate that checks and copies in one loop.
XValidate_fused ==
    /\ xpc = "validate"
    /\ IF idx > Len(pages_1based)
       THEN xpc' = "metadata" /\ UNCHANGED <<idx, err, writer>>
       ELSE IF OutOfRange(pages_1based[idx], total_pages)
       THEN Raise("ValueError") /\ UNCHANGED <<idx, writer>>
       ELSE /\ writer' = [pages |-> Append(IF writer = None THEN <<>> ELSE writer.pages,
                                           SourcePage(reader, pages_1based[idx])),
                          meta |-> None]
            /\ idx' = idx + 1
            /\ UNCHANGED <<xpc, err>>
    /\ UNCHANGED <<pdf_bytes, pages_1based, reader, total_pages, result>>
    /\ UNCHANGED <<parseVars, uiVars>>

\* for p in pages_1based: if p < 1 or p > total_pages: raise ValueError
XValidate ==
    /\ xpc = "validate"
    /\ IF idx > Len(pages_1based)
       THEN xpc' = "writer" /\ UNCHANGED <<idx, err>>
       ELSE IF OutOfRange(pages_1based[idx], total_pages)
       THEN Raise("ValueError") /\ UNCHANGED idx
       ELSE idx' = idx + 1 /\ UNCHANGED <<xpc, err>>
    /\ UNCHANGED <<pdf_bytes, pages_1based, reader, total_pages, writer, result>>
    /\ UNCHANGED <<parseVars, uiVars>>

\* writer = PdfWriter()
XNewWriter ==
    /\ xpc = "writer"
    /\ writer' = PdfWriter /\ idx' = 1 /\ xpc' = "copy"
    /\ UNCHANGED <<pdf_bytes, pages_1based, reader, total_pages, result, err>>
    /\ UNCHANGED <<parseVars, uiVars>>

\* Variant of XAddPage that consumes the list: p = pages_1based.pop(0).
XAddPage_pop ==
    /\ xpc = "copy"
    /\ IF pages_1based = <<>>
       THEN xpc' = "metadata" /\ UNCHANGED <<pages_1based, writer, err>>
       ELSE LET p == Head(pages_1based)
            IN  IF ~InIndex(reader.pages, p - 1)
                THEN Raise("IndexError") /\ UNCHANGED <<pages_1based, writer>>
                ELSE IF p \in reader.bad
                THEN Raise("PdfReadError") /\ UNCHANGED <<pages_1based, writer>>
                ELSE /\ writer' = [writer EXCEPT
                                     !.pages = Append(@, SourcePage(reader, p))]
                     /\ pages_1based' = Tail(pages_1based)
                     /\ UNCHANGED <<xpc, err>>
    /\ UNCHANGED <<pdf_bytes, idx, reader, total_pages, result>>
    /\ UNCHANGED <<parseVars, uiVars>>

\* for p in pages_1based: writer.add_page(reader.pages[p - 1])
XAddPage ==
    /\ xpc = "copy"
    /\ IF idx > Len(pages_1based)
       THEN xpc' = "metadata" /\ UNCHANGED <<idx, writer, err>>
       ELSE LET p == pages_1based[idx]
            IN  IF ~InIndex(reader.pages, p - 1)
                THEN Raise("IndexError") /\ UNCHANGED <<idx, writer>>
                ELSE IF p \in reader.bad
                THEN Raise("PdfReadError") /\ UNCHANGED <<idx, writer>>
                ELSE /\ writer' = [writer EXCEPT
                                     !.pages = Append(@, SourcePage(reader, p))]
                     /\ idx' = idx + 1
                     /\ UNCHANGED <<xpc, err>>
    /\ UNCHANGED <<pdf_bytes, pages_1based, reader, total_pages, result>>
    /\ UNCHANGED <<parseVars, uiVars>>

\* writer.add_metadata({...})
XMetadata ==
    /\ xpc = "metadata"
    /\ writer' = [writer EXCEPT !.meta = Metadata]
    /\ xpc' = "write"
    /\ UNCHANGED <<pdf_bytes, pages_1based, reader, total_pages, idx, result, err>>
    /\ UNCHANGED <<parseVars, uiVars>>

\* writer.write(out_buf); out_buf.seek(0); return out_buf.read()
XWrite ==
    /\ xpc = "write"
    /\ result' = Serialize(writer)
    /\ xpc' = "returned"
    /\ UNCHANGED <<pdf_bytes, pages_1based, reader, total_pages, idx, writer, err>>
    /\ UNCHANGED <<parseVars, uiVars>>

XIdle ==
    /\ reader = None /\ total_pages = 0 /\ idx = 0 /\ writer = None
    /\ result = None /\ err = NoErr

UIIdle ==
    /\ upc = "start" /\ uploaded = None /\ m_total_pages = 0 /\ mode = NoMode
    /\ start = 1 /\ end = 1 /\ selected_pages = <<>> /\ clicked = FALSE
    /\ msgs = {} /\ download = None

(***************************************************************************)
(* Spec: extract_pages_from_pdf called with any document and page list     *)
(***************************************************************************)
Init ==
    /\ spec = <<>> /\ parsed = None
    /\ pdf_bytes \in Docs
    /\ pages_1based \in PageLists
    /\ xpc = "open"
    /\ XIdle
    /\ UIIdle

Next ==
    \/ XOpen
    \/ XDecrypt
    \/ XCount
    \/ XValidate
    \/ XNewWriter
    \/ XAddPage
    \/ XMetadata
    \/ XWrite

Spec == Init /\ [][Next]_vars

(***************************************************************************)
(* SpecParse: parse_page_spec called with any text                         *)
(***************************************************************************)
ParseCall ==
    /\ parsed = None
    /\ parsed' = parse_page_spec(spec)
    /\ UNCHANGED <<spec, extractVars, uiVars>>

InitParse ==
    /\ spec \in Texts(MaxSpecLen)
    /\ parsed = None
    /\ pdf_bytes = NotPdf /\ pages_1based = <<>> /\ xpc = "idle"
    /\ XIdle
    /\ UIIdle

NextParse == ParseCall

SpecParse == InitParse /\ [][NextParse]_vars

(***************************************************************************)
(* The module-level script: one pass per run of the Streamlit script       *)
(***************************************************************************)
Show(m) == msgs' = msgs \cup {m}

\* uploaded = st.file_uploader(...); if uploaded is not None: ... else: st.info
UStart ==
    /\ upc = "start"
    /\ \E u \in Docs \cup {None} :
        /\ uploaded' = u
        /\ IF u = None
           THEN Show("info_upload") /\ upc' = "done"
           ELSE upc' = "read" /\ UNCHANGED msgs
    /\ UNCHANGED <<m_total_pages, mode, start, end, selected_pages, clicked, download>>
    /\ UNCHANGED <<parseVars, extractVars>>

\* pdf_bytes = uploaded.read(); try: reader = PdfReader(...);
\* total_pages = len(reader.pages) except: st.error; st.stop()
URead ==
    /\ upc = "read"
    /\ IF uploaded.valid /\ PagesReadable(PdfReader(uploaded))
       THEN /\ m_total_pages' = Len(PdfReader(uploaded).pages)
            /\ Show("info_total")
            /\ upc' = "mode"
       ELSE /\ Show("error_read")
            /\ upc' = "done"
            /\ UNCHANGED m_total_pages
    /\ UNCHANGED <<uploaded, mode, start, end, selected_pages, clicked, download>>
    /\ UNCHANGED <<parseVars, extractVars>>

\* mode = st.radio(...); selected_pages = []
UMode ==
    /\ upc = "mode"
    /\ \E m \in {"spec", "range"} :
        /\ mode' = m
        /\ upc' = IF m = "spec" THEN "select_spec" ELSE "select_range"
    /\ selected_pages' = <<>>
    /\ UNCHANGED <<uploaded, m_total_pages, start, end, clicked, msgs, download>>
    /\ UNCHANGED <<parseVars, extractVars>>

\* spec = st.text_input(...); if spec: try: selected_pages = parse_page_spec(spec)
\* except: st.error
USelectSpec ==
    /\ upc = "select_spec"
    /\ \E t \in Texts(MaxUISpecLen) :
        /\ spec' = t
        /\ IF t = <<>>
           THEN parsed' = None /\ UNCHANGED <<selected_pages, msgs>>
           ELSE /\ parsed' = parse_page_spec(t)
                /\ IF parsed'.status = "ok"
                   THEN selected_pages' = parsed'.pages /\ UNCHANGED msgs
                   ELSE Show("error_spec") /\ UNCHANGED selected_pages
    /\ upc' = "check"
    /\ UNCHANGED <<uploaded, m_total_pages, mode, start, end, clicked, download>>
    /\ UNCHANGED extractVars

\* Variant of RangeModeList whose descending branch stops at end + 1.
RangeModeList_short(s, e) ==
    IF s <= e THEN PyRange(s, e + 1, 1) ELSE PyRange(s, e, 0 - 1)

\* The list the range mode builds from the two number inputs.
RangeModeList(s, e) ==
    IF s <= e THEN PyRange(s, e + 1, 1) ELSE PyRange(s, e - 1, 0 - 1)

\* start = st.number_input(min_value=1); end = st.number_input(min_value=1);
\* selected_pages = list(range(...))
USelectRange ==
    /\ upc = "select_range"
    /\ \E s \in 1..MaxInput, e \in 1..MaxInput :
        /\ start' = s
        /\ end' = e
        /\ selected_pages' = RangeModeList(s, e)
    /\ upc' = "check"
    /\ UNCHANGED <<uploaded, m_total_pages, mode, clicked, msgs, download>>
    /\ UNCHANGED <<parseVars, extractVars>>

\* bad = [p for p in selected_pages if p < 1 or p > total_pages]
BadPages(l, n) == SelectSeq(l, LAMBDA p : OutOfRange(p, n))

\* Variant of UCheck that goes on to the button after reporting bad pages.
UCheck_noelse ==
    /\ upc = "check"
    /\ IF selected_pages # <<>>
       THEN IF BadPages(selected_pages, m_total_pages) # <<>>
            THEN msgs' = msgs \cup {"selected", "error_range"} /\ upc' = "button"
            ELSE Show("selected") /\ upc' = "button"
       ELSE Show("warning_pick") /\ upc' = "done"
    /\ UNCHANGED <<uploaded, m_total_pages, mode, start, end, selected_pages,
                   clicked, download>>
    /\ UNCHANGED <<parseVars, extractVars>>

\* if selected_pages: st.write; bad = ...; if bad: st.error  else: st.warning
UCheck ==
    /\ upc = "check"
    /\ IF selected_pages # <<>>
       THEN IF BadPages(selected_pages, m_total_pages) # <<>>
            THEN msgs' = msgs \cup {"selected", "error_range"} /\ upc' = "done"
            ELSE Show("selected") /\ upc' = "button"
       ELSE Show("warning_pick") /\ upc' = "done"
    /\ UNCHANGED <<uploaded, m_total_pages, mode, start, end, selected_pages,
                   clicked, download>>
    /\ UNCHANGED <<parseVars, extractVars>>

\* if st.button(...): try: out_bytes = extract_pages_from_pdf(pdf_bytes, selected_pages)
UButton ==
    /\ upc = "button"
    /\ \E c \in BOOLEAN :
        /\ clicked' = c
        /\ IF c
           THEN /\ pdf_bytes' = uploaded
                /\ pages_1based' = selected_pages
                /\ xpc' = "open"
                /\ upc' = "extract"
           ELSE upc' = "done" /\ UNCHANGED <<pdf_bytes, pages_1based, xpc>>
    /\ UNCHANGED <<reader, total_pages, idx, writer, result, err>>
    /\ UNCHANGED <<uploaded, m_total_pages, mode, start, end, selected_pages,
                   msgs, download>>
    /\ UNCHANGED parseVars

\* st.success; st.download_button(data=out_bytes, ...)  except: st.error
UAfterExtract ==
    /\ upc = "extract"
    /\ xpc \in {"returned", "raised"}
    /\ IF xpc = "returned"
       THEN /\ Show("success")
            /\ download' = [data |-> result, file_name |-> "extracted_pages.pdf",
                            mime |-> "application/pdf"]
       ELSE Show("error_build") /\ UNCHANGED download
    /\ upc' = "done"
    /\ UNCHANGED <<uploaded, m_total_pages, mode, start, end, selected_pages, clicked>>
    /\ UNCHANGED <<parseVars, extractVars>>

\* The script ran to its end (or st.stop()); the next interaction runs it anew.
URerun ==
    /\ upc = "done"
    /\ upc' = "start" /\ uploaded' = None /\ m_total_pages' = 0 /\ mode' = NoMode
    /\ start' = 1 /\ end' = 1 /\ selected_pages' = <<>> /\ clicked' = FALSE
    /\ msgs' = {} /\ download' = None
    /\ spec' = <<>> /\ parsed' = None
    /\ pdf_bytes' = NotPdf /\ pages_1based' = <<>> /\ xpc' = "idle"
    /\ reader' = None /\ total_pages' = 0 /\ idx' = 0 /\ writer' = None
    /\ result' = None /\ err' = NoErr

InitUI ==
    /\ spec = <<>> /\ parsed = None
    /\ pdf_bytes = NotPdf /\ pages_1based = <<>> /\ xpc = "idle"
    /\ XIdle
    /\ UIIdle

NextUI ==
    \/ UStart
    \/ URead
    \/ UMode
    \/ USelectSpec
    \/ USelectRange
    \/ UCheck
    \/ UButton
    \/ XOpen
    \/ XDecrypt
    \/ XCount
    \/ XValidate
    \/ XNewWriter
    \/ XAddPage
    \/ XMetadata
    \/ XWrite
    \/ UAfterExtract
    \/ URerun

SpecUI == InitUI /\ [][NextUI]_vars

(***************************************************************************)
(* What a spec text means, stated apart from the parser's code             *)
(***************************************************************************)
\* Positions that bound the comma-separated tokens of s.
Cuts(s) == {0, Len(s) + 1} \cup {k \in 1..Len(s) : s[k] = ","}

NthCut(s, i) ==
    CHOOSE c \in Cuts(s) : Cardinality({d \in Cuts(s) : d < c}) = i - 1

\* The i-th token of s with the whitespace at its ends removed.
TrimmedToken(s, i) ==
    LET a == NthCut(s, i) + 1
        b == NthCut(s, i + 1) - 1
        inner == {k \in a..b : s[k] # " "}
    IN  IF inner = {} THEN <<>>
        ELSE SubSeq(s, CHOOSE k \in inner : \A j \in inner : k <= j,
                       CHOOSE k \in inner : \A j \in inner : k >= j)

TokenCount(s) == Cardinality(Cuts(s)) - 1

Tokens(s) == [i \in 1..TokenCount(s) |-> TrimmedToken(s, i)]

IsUnsigned(t) == t # <<>> /\ \A k \in 1..Len(t) : IsDigit(t[k])

IsNegative(t) == t # <<>> /\ t[1] = "-" /\ IsUnsigned(Tail(t))

IsInteger(t) == IsUnsigned(t) \/ IsNegative(t)

RECURSIVE Horner(_, _)
Horner(t, acc) ==
    IF t = <<>> THEN acc ELSE Horner(Tail(t), 10 * acc + DigitVal(Head(t)))

IntegerValue(t) == IF IsNegative(t) THEN 0 - Horner(Tail(t), 0) ELSE Horner(t, 0)

\* Positions of a '-' that separates two integers of t.
RangeCuts(t) ==
    {k \in 1..Len(t) : /\ t[k] = "-"
                       /\ IsInteger(SubSeq(t, 1, k - 1))
                       /\ IsInteger(SubSeq(t, k + 1, Len(t)))}

IsRange(t) == RangeCuts(t) # {}

\* A range whose first integer carries no sign.
IsPlainRange(t) == \E k \in RangeCuts(t) : IsUnsigned(SubSeq(t, 1, k - 1))

Inclusive(a, b) ==
    IF a <= b THEN [i \in 1..(b - a + 1) |-> a + i - 1]
    ELSE [i \in 1..(a - b + 1) |-> a - i + 1]

\* The pages a token stands for.
Expansion(t) ==
    IF t = <<>> THEN <<>>
    ELSE IF IsInteger(t) THEN <<IntegerValue(t)>>
    ELSE LET k == CHOOSE c \in RangeCuts(t) : TRUE
         IN  Inclusive(IntegerValue(SubSeq(t, 1, k - 1)),
                       IntegerValue(SubSeq(t, k + 1, Len(t))))

RECURSIVE Concat(_)
Concat(ts) == IF ts = <<>> THEN <<>> ELSE Expansion(Head(ts)) \o Concat(Tail(ts))

Meaning(s) == Concat(Tokens(s))

ParseDone == parsed # None

(***************************************************************************)
(* Claims about parse_page_spec (SpecParse)                                *)
(***************************************************************************)
EveryToken(P(_)) == \A i \in 1..TokenCount(spec) : P(Tokens(spec)[i])

SomeToken(P(_)) == \E i \in 1..TokenCount(spec) : P(Tokens(spec)[i])

\* C1 as stated: when every trimmed token is empty, an integer or a range of
\* two integers, parse_page_spec returns the concatenation of the tokens'
\* expansions in token order.
C1_Original ==
    (ParseDone /\ EveryToken(LAMBDA t : t = <<>> \/ IsInteger(t) \/ IsRange(t)))
        => parsed = Returned(Meaning(spec))

\* C1 amended: when every trimmed token is empty, an integer written without
\* a sign, or a range a-b whose first integer a is written without a sign,
\* parse_page_spec returns the concatenation of the tokens' expansions in
\* token order, neither sorted nor deduplicated.
C1_Concatenation ==
    (ParseDone /\ EveryToken(LAMBDA t : t = <<>> \/ IsUnsigned(t) \/ IsPlainRange(t)))
        => parsed = Returned(Meaning(spec))

\* '3-1,1' was parsed: a descending range followed by a repeated page.
C1_Witness ==
    /\ ParseDone
    /\ spec = <<"3", "-", "1", ",", "1">>
    /\ parsed.pages = <<3, 2, 1, 1>>

\* What int() reads as an integer: whitespace around an optionally signed
\* run of digits.
ReadsAsInteger(t) ==
    LET inner == {k \in 1..Len(t) : ~IsSpace(t[k])}
        u == IF inner = {} THEN <<>>
             ELSE SubSeq(t, CHOOSE k \in inner : \A j \in inner : k <= j,
                            CHOOSE k \in inner : \A j \in inner : k >= j)
    IN  \/ IsUnsigned(u)
        \/ u # <<>> /\ u[1] \in {"+", "-"} /\ IsUnsigned(Tail(u))

ReadsAsRange(t) ==
    \E k \in 1..Len(t) : /\ t[k] = "-"
                         /\ ReadsAsInteger(SubSeq(t, 1, k - 1))
                         /\ ReadsAsInteger(SubSeq(t, k + 1, Len(t)))

Malformed(t) == t # <<>> /\ ~ReadsAsInteger(t) /\ ~ReadsAsRange(t)

NamedMalformed == {<<"x">>, <<"x", "-", "3">>, <<"-">>, <<"3", "-">>}

\* C4: when some non-empty trimmed token is neither an integer nor a range of
\* two integers (in particular 'x', 'x-3', '-' and '3-', wherever it stands),
\* parse_page_spec raises and returns no list, neither a partial one nor one
\* with the token skipped.
C4_MalformedRaises ==
    (ParseDone /\ SomeToken(LAMBDA t : Malformed(t) \/ t \in NamedMalformed))
        => parsed = Raised("ValueError")

\* '3-,1' was parsed: a range without its end before a valid token.
C4_Witness ==
    /\ ParseDone
    /\ spec = <<"3", "-", ",", "1">>
    /\ parsed.status = "ValueError"

\* C8 as stated: a token that is a negative integer, among tokens that are
\* empty, integers or ranges, is accepted and its value is in the result.
C8_Original ==
    (/\ ParseDone
     /\ SomeToken(IsNegative)
     /\ EveryToken(LAMBDA t : t = <<>> \/ IsInteger(t) \/ IsRange(t)))
        => /\ parsed.status = "ok"
           /\ EveryToken(LAMBDA t : IsNegative(t) =>
                  \E k \in 1..Len(parsed.pages) : parsed.pages[k] = IntegerValue(t))

EndsNegative(t) ==
    \E k \in RangeCuts(t) : /\ IsUnsigned(SubSeq(t, 1, k - 1))
                            /\ IsNegative(SubSeq(t, k + 1, Len(t)))

NegativeEnd(t) ==
    LET k == CHOOSE c \in RangeCuts(t) : TRUE
    IN  IntegerValue(SubSeq(t, k + 1, Len(t)))

\* C8 amended: a token that begins with '-', such as '-3', alone or among
\* other tokens, makes parse_page_spec raise; a negative integer is accepted
\* as the end of a range whose first integer has no sign, and is then in the
\* result.
C8_NegativeTokens ==
    ParseDone =>
        /\ SomeToken(LAMBDA t : t # <<>> /\ t[1] = "-") => parsed = Raised("ValueError")
        /\ (/\ SomeToken(EndsNegative)
            /\ EveryToken(LAMBDA t : t = <<>> \/ IsUnsigned(t) \/ IsPlainRange(t)))
               => /\ parsed.status = "ok"
                  /\ EveryToken(LAMBDA t : EndsNegative(t) =>
                         \E k \in 1..Len(parsed.pages) : parsed.pages[k] = NegativeEnd(t))

\* '1,-3' was parsed: a negative integer after a valid token.
C8_Witness ==
    /\ ParseDone
    /\ spec = <<"1", ",", "-", "3">>
    /\ parsed = Raised("ValueError")

(***************************************************************************)
(* Claims about extract_pages_from_pdf (Spec)                              *)
(***************************************************************************)
Finished == xpc \in {"returned", "raised"}

SourceCount == Len(pdf_bytes.pages)

InSource(p) == 1 <= p /\ p <= SourceCount

AllInSource == \A i \in 1..Len(pages_1based) : InSource(pages_1based[i])

\* A document the library opens and whose pages it can all clone.
Readable(d) == d.valid /\ d.enc # "locked" /\ d.bad = {}

\* C2: when extract_pages_from_pdf returns, the output has len(L) pages and
\* output page i is source page L[i] (1-based), order and repetition kept.
C2_OutputFollowsList ==
    xpc = "returned" =>
        /\ result # None
        /\ Len(result.pages) = Len(pages_1based)
        /\ \A i \in 1..Len(pages_1based) :
               result.pages[i] = pdf_bytes.pages[pages_1based[i]]

\* Pages [A,B,C] were extracted with the list [3,1].
C2_Witness ==
    /\ xpc = "returned"
    /\ SourceCount = 3
    /\ pages_1based = <<3, 1>>
    /\ result.pages = <<PageObj(3), PageObj(1)>>

\* C3: on a readable document with N pages the call ends in the out-of-range
\* error exactly when some element of the list is outside [1, N], and
\* otherwise returns a document with one page per element.
C3_OutOfRangeExactly ==
    (Finished /\ Readable(pdf_bytes)) =>
        IF AllInSource
        THEN /\ xpc = "returned"
             /\ err = NoErr
             /\ Len(result.pages) = Len(pages_1based)
        ELSE /\ xpc = "raised"
             /\ err = "ValueError"
             /\ result = None

\* The single page N + 1 was asked of a readable document with N >= 1 pages.
C3_Witness ==
    /\ xpc = "raised"
    /\ err = "ValueError"
    /\ Readable(pdf_bytes)
    /\ SourceCount >= 1
    /\ pages_1based = <<SourceCount + 1>>

\* C5: the range check of every element is over before the first page is
\* appended: a writer exists only when every element is in range, and a call
\* that ends in the out-of-range error has copied no page and returned no
\* bytes.
C5_ValidateBeforeCopy ==
    /\ writer # None => (AllInSource /\ err # "ValueError")
    /\ err = "ValueError" => (writer = None /\ result = None /\ ~AllInSource)

\* The call failed on the last element of a list whose earlier elements are
\* all in range.
C5_Witness ==
    /\ err = "ValueError"
    /\ Len(pages_1based) >= 2
    /\ ~InSource(pages_1based[Len(pages_1based)])
    /\ \A i \in 1..(Len(pages_1based) - 1) : InSource(pages_1based[i])

\* C6 as stated: on an encrypted document that the empty password does not
\* open, the call ends with the encrypted-document error at the unlock step
\* and gets no further, whether decrypt raises or only returns its failure.
C6_StopsAtUnlock ==
    (pdf_bytes.valid /\ pdf_bytes.enc = "locked") =>
        \/ xpc \in {"open", "decrypt"}
        \/ xpc = "raised" /\ err = "RuntimeError"

\* C9: no step of extract_pages_from_pdf changes its inputs: the bytes and
\* the page list stay as passed, and the pages of the opened source document
\* stay those of the bytes.
C9_InputsUnchanged ==
    [][/\ pdf_bytes' = pdf_bytes
       /\ pages_1based' = pages_1based
       /\ reader' # None => (reader'.pages = pdf_bytes.pages /\ reader'.bad = pdf_bytes.bad)]_vars

\* A call returned that appended the same source page twice and attached the
\* metadata.
C9_Witness ==
    /\ xpc = "returned"
    /\ \E i, j \in 1..Len(pages_1based) : i # j /\ pages_1based[i] = pages_1based[j]
    /\ result.meta = Metadata
    /\ reader.pages = pdf_bytes.pages

(***************************************************************************)
(* Claims about the script (SpecUI)                                        *)
(***************************************************************************)
InputErrors == {"error_read", "error_spec", "error_range"}

\* C7: a download is offered only after a successful read, a non-empty
\* selection all within [1, total_pages], a click on the build button and a
\* successful extraction; after any error no download is offered, and after
\* a read, spec or range error extraction is not invoked either.
C7_DownloadOnlyAfterSuccess ==
    /\ download # None =>
          /\ "info_total" \in msgs
          /\ uploaded # None
          /\ selected_pages # <<>>
          /\ \A i \in 1..Len(selected_pages) :
                 1 <= selected_pages[i] /\ selected_pages[i] <= m_total_pages
          /\ clicked
          /\ xpc = "returned"
          /\ download.data = result
          /\ msgs \cap (InputErrors \cup {"error_build"}) = {}
    /\ msgs \cap (InputErrors \cup {"error_build"}) # {} => download = None
    /\ msgs \cap InputErrors # {} => (xpc = "idle" /\ ~clicked)

\* A download was offered for pages chosen by a spec text.
C7_Witness ==
    /\ download # None
    /\ mode = "spec"
    /\ Len(selected_pages) >= 2

\* str(n) for n >= 0.
RECURSIVE DecimalText(_)
DecimalText(n) ==
    IF n < 10 THEN <<Digits[n + 1]>>
    ELSE DecimalText(n \div 10) \o <<Digits[(n % 10) + 1]>>

\* C10: the list the range mode builds from start and end is the list
\* parse_page_spec returns for the text 'start-end', and it is not empty.
C10_RangeModeAgrees ==
    (mode = "range" /\ upc \in {"check", "button", "extract", "done"}) =>
        /\ parse_page_spec(DecimalText(start) \o <<"-">> \o DecimalText(end))
               = Returned(selected_pages)
        /\ selected_pages # <<>>

\* The range mode built a descending list from a two-digit start.
C10_Witness ==
    /\ mode = "range"
    /\ upc = "check"
    /\ start >= 10
    /\ end < start
    /\ selected_pages[1] = start

====
